---- MODULE Spec2Model ----
(***************************************************************************)
(* Model of the MUGEN / IKEMEN GO character installer and manager:         *)
(*   src/mugen-installer.py    batch installer that edits data/select.def  *)
(*   src/mugen_manager_v2.py   menu-driven manager (add / delete / list)   *)
(* Text is modelled as sequences of one-character strings so that strip,   *)
(* lower, startswith and split are computed the way Python computes them.  *)
(***************************************************************************)
EXTENDS Integers, Sequences, FiniteSets, TLC

VARIABLES
    selectDef,   \* data/select.def: the lines of the file, each [txt, nl]
    config,      \* save/config.json: [hasChars, Characters, other]
    engine,      \* ENGINE_TYPE of the manager's config
    fsNoCase,    \* TRUE on a filesystem that ignores letter case in names
    chars,       \* the chars/ folder: set of [name, def] folders
    downloads,   \* archive files present in the downloads folder
    backups,     \* snapshots of the roster kept in a backups/ directory
    pc,          \* position of the running program
    archives,    \* the list the running batch loop iterates over
    idx,         \* index of the next archive of the batch
    roster,      \* current_roster: the list read_roster returned
    cleanup,     \* CLEANUP_ARCHIVES / CLEANUP_ARCHIVES_AFTER_ADD
    last,        \* record of what the latest step did (observation only)
    done,        \* archives the batch loop has taken up (observation only)
    added,       \* names an add has written to the roster (observation only)
    ops          \* number of calls or menu choices made so far

vars == <<selectDef, config, engine, fsNoCase, chars, downloads, backups,
          pc, archives, idx, roster, cleanup, last, done, added, ops>>

----------------------------------------------------------------------------
(* Bounds of the model *)

MaxLines == 4
MaxAdds == 2
MaxBatch == 2
MaxOps == 2

----------------------------------------------------------------------------
(* Text primitives of Python's str *)

UpperCase == <<"A","B","C","D","E","F","G","H","I","J","K","L","M",
               "N","O","P","Q","R","S","T","U","V","W","X","Y","Z">>
LowerCase == <<"a","b","c","d","e","f","g","h","i","j","k","l","m",
               "n","o","p","q","r","s","t","u","v","w","x","y","z">>

\* the characters of the model in code point order
CodeOrder == <<"\t", "\n", "\r", " ", ",", ".", "/", "2", "7", ";">> \o UpperCase
             \o <<"[", "\\", "]">> \o LowerCase

Alphabet == {CodeOrder[i] : i \in 1..Len(CodeOrder)}

LowerChar ==
    [c \in Alphabet |->
        IF \E i \in 1..26 : UpperCase[i] = c
        THEN LowerCase[CHOOSE i \in 1..26 : UpperCase[i] = c]
        ELSE c]

\* str.lower()
Lower(s) == [i \in 1..Len(s) |-> LowerChar[s[i]]]

IsSpace(c) == c \in {" ", "\t", "\r", "\n"}

RECURSIVE LStrip(_)
LStrip(s) == IF s # <<>> /\ IsSpace(Head(s)) THEN LStrip(Tail(s)) ELSE s

RECURSIVE RStrip(_)
RStrip(s) ==
    IF s # <<>> /\ IsSpace(s[Len(s)]) THEN RStrip(SubSeq(s, 1, Len(s) - 1)) ELSE s

\* str.strip()
Strip(s) == RStrip(LStrip(s))

\* str.startswith(p)
StartsWith(s, p) == Len(p) <= Len(s) /\ SubSeq(s, 1, Len(p)) = p

\* str.endswith(p)
EndsWith(s, p) == Len(p) <= Len(s) /\ SubSeq(s, Len(s) - Len(p) + 1, Len(s)) = p

\* s.split(sep)[0] for a one-character separator
RECURSIVE FirstField(_, _)
FirstField(s, sep) ==
    IF s = <<>> \/ Head(s) = sep THEN <<>>
    ELSE <<Head(s)>> \o FirstField(Tail(s), sep)

\* s.split(sep) for a one-character separator
RECURSIVE Split(_, _)
Split(s, sep) ==
    LET f == FirstField(s, sep)
    IN IF Len(f) = Len(s) THEN <<f>>
       ELSE <<f>> \o Split(SubSeq(s, Len(f) + 2, Len(s)), sep)

\* s.replace('\\', '/')
SlashFix(s) == [i \in 1..Len(s) |-> IF s[i] = "\\" THEN "/" ELSE s[i]]

----------------------------------------------------------------------------
(* Text constants *)

HdrCharacters == <<"[","C","h","a","r","a","c","t","e","r","s","]">>
HdrLower      == <<"[","c","h","a","r","a","c","t","e","r","s","]">>
HdrExtra      == <<"[","E","x","t","r","a","S","t","a","g","e","s","]">>
Sentinel      == <<"r","a","n","d","o","m","s","e","l","e","c","t">>
KFM  == <<"K","F","M">>
Ryu  == <<"R","y","u">>
RYU  == <<"R","Y","U">>
Ryu2 == <<"R","y","u","2">>

\* folder names the archives can carry
Names == {KFM, Ryu, RYU}

----------------------------------------------------------------------------
(* Text files: a file is the sequence readlines() returns.  Every line but  *)
(* the last ends with a newline; the last line may lack it.                 *)

Line(t) == [txt |-> t, nl |-> TRUE]

\* f.readlines()
ReadLines(file) == file

\* f.writelines(lines): the strings are concatenated, so a string that does
\* not end with a newline runs into the string written after it.
RECURSIVE WriteLines(_)
WriteLines(lines) ==
    IF Len(lines) <= 1 THEN lines
    ELSE IF lines[1].nl THEN <<lines[1]>> \o WriteLines(Tail(lines))
    ELSE WriteLines(<<[txt |-> lines[1].txt \o lines[2].txt, nl |-> lines[2].nl]>>
                    \o SubSeq(lines, 3, Len(lines)))

----------------------------------------------------------------------------
(* mugen-installer.py: add_char_to_select_def *)

\* lines 101-106: the scan for a line that begins with the name
AlreadyPresent(lines, char_name) ==
    \E i \in 1..Len(lines) :
        StartsWith(Lower(Strip(lines[i].txt)), Lower(char_name))

\* lines 112-124: the loop that copies the lines and inserts the name in
\* front of the header that closes [Characters]
RECURSIVE InsertLoop(_, _, _, _, _, _)
InsertLoop(lines, i, char_name, in_chars_section, inserted, new_lines) ==
    IF i > Len(lines)
    THEN [new_lines |-> new_lines, in_chars_section |-> in_chars_section,
          inserted |-> inserted]
    ELSE LET line == lines[i] IN
         IF Lower(Strip(line.txt)) = HdrLower
         THEN InsertLoop(lines, i + 1, char_name, TRUE, inserted,
                         Append(new_lines, line))
         ELSE IF in_chars_section /\ StartsWith(Strip(line.txt), <<"[">>)
         THEN InsertLoop(lines, i + 1, char_name, FALSE, TRUE,
                         (IF inserted THEN new_lines
                          ELSE Append(new_lines, Line(char_name))) \o <<line>>)
         ELSE InsertLoop(lines, i + 1, char_name, in_chars_section, inserted,
                         Append(new_lines, line))

\* lines 108-129: the new content, and whether the name was inserted
Inserted(lines, char_name) ==
    LET r == InsertLoop(lines, 1, char_name, FALSE, FALSE, <<>>)
    IN IF r.in_chars_section /\ ~r.inserted
       THEN [new_lines |-> Append(r.new_lines, Line(char_name)), inserted |-> TRUE]
       ELSE [new_lines |-> r.new_lines, inserted |-> r.inserted]

\* The outcomes of one call: "present" (line 106), "nosection" (line 133),
\* "written" (line 140), "writeerror" (line 143).  A failing write either
\* failed to open the file (content kept) or failed after truncating it.
AddOutcomes(file, char_name) ==
    LET lines == ReadLines(file) IN
    IF AlreadyPresent(lines, char_name)
    THEN {[how |-> "present", ret |-> TRUE, file |-> file]}
    ELSE LET r == Inserted(lines, char_name) IN
         IF ~r.inserted
         THEN {[how |-> "nosection", ret |-> FALSE, file |-> file]}
         ELSE {[how |-> "written", ret |-> TRUE, file |-> WriteLines(r.new_lines)],
               [how |-> "writeerror", ret |-> FALSE, file |-> file],
               [how |-> "writeerror", ret |-> FALSE, file |-> <<>>]}

----------------------------------------------------------------------------
(* The filesystem: folders of chars/, archives of the downloads folder *)

DotDef == <<".","d","e","f">>
DotZip == <<".","z","i","p">>
DotRar == <<".","r","a","r">>
Dot7z  == <<".","7","z">>

\* an extracted top-level entry: a folder with the files in it, or a file
Dir(n, fs)  == [name |-> n, dir |-> TRUE, files |-> fs]
File(n)     == [name |-> n, dir |-> FALSE, files |-> <<>>]

\* an archive: its file name, whether it extracts, and what it extracts to
Archive(f, good, c) == [file |-> f, ok |-> good, contents |-> c]

ArcRyu    == Archive(<<"r">> \o DotZip, TRUE, <<Dir(Ryu, <<Ryu \o DotDef>>)>>)
ArcRYU    == Archive(<<"u">> \o DotRar, TRUE, <<Dir(RYU, <<RYU \o DotDef>>)>>)
ArcKfm    == Archive(<<"k">> \o DotZip, TRUE,
                     <<File(<<"r","e","a","d","m","e">>), Dir(KFM, <<<<"x">> \o DotDef>>)>>)
ArcBad    == Archive(<<"b">> \o Dot7z, FALSE, <<>>)
ArcNoDef  == Archive(<<"n">> \o DotZip, TRUE, <<Dir(KFM, <<>>)>>)
ArcFiles  == Archive(<<"f">> \o DotZip, TRUE, <<File(<<"r","e","a","d","m","e">>)>>)
NotArc    == Archive(<<"t",".","t","x","t">>, FALSE, <<>>)

ArchivePool == {ArcRyu, ArcRYU, ArcKfm, ArcBad, ArcNoDef, ArcFiles, NotArc}

\* two names denote the same directory entry
FsSame(a, b) == IF fsNoCase THEN Lower(a) = Lower(b) ELSE a = b

\* os.path.exists / os.path.isdir of chars/<name>
Exists(name) == \E f \in chars : FsSame(f.name, name)

\* os.path.isfile of <folder>/<file> for an extracted or installed folder
HasFile(files, file) == \E i \in 1..Len(files) : FsSame(files[i], file)

\* shutil.move(source, chars_folder): the folder lands in chars/
Moved(item) == chars \cup {[name |-> item.name, files |-> item.files]}

\* shutil.rmtree(chars/<name>)
Removed(name) == {f \in chars : ~FsSame(f.name, name)}

\* f.endswith(('.zip', '.rar', '.7z'))
IsArchiveName(f) == EndsWith(f, DotZip) \/ EndsWith(f, DotRar) \/ EndsWith(f, Dot7z)

\* os.listdir(downloads) filtered: any order of the archive files present
Listings(dl) ==
    LET arcs == {a \in dl : IsArchiveName(a.file)}
        n == Cardinality(arcs)
    IN {q \in [1..n -> arcs] : \A i, j \in 1..n : i # j => q[i] # q[j]}

\* the first of a non-empty set of indices
MinOf(S) == CHOOSE x \in S : \A y \in S : x <= y

NoFolder == [name |-> <<>>, dir |-> FALSE, files |-> <<>>]

\* mugen-installer.py find_character_folder: a folder holding <folder>.def
FindCharacterFolderInst(contents) ==
    LET good == {i \in 1..Len(contents) :
                    /\ contents[i].dir
                    /\ HasFile(contents[i].files, contents[i].name \o DotDef)}
    IN IF good = {} THEN NoFolder ELSE contents[MinOf(good)]

----------------------------------------------------------------------------
(* State shared by the specifications *)

NoLast == [op |-> "none"]

\* no config.json is in play
NoConfig == [hasChars |-> FALSE, Characters |-> <<>>, other |-> {}]

\* One call of add_char_to_select_def(char_name) with outcome o
CallAdd(char_name, o) ==
    /\ selectDef' = o.file
    /\ last' = [op |-> "add", name |-> char_name, how |-> o.how, ret |-> o.ret,
                before |-> selectDef, was |-> added]
    /\ added' = IF o.how = "written" THEN added \cup {char_name}
                ELSE IF o.file # selectDef THEN {}
                ELSE added

\* Files of at most n lines over a pool of line texts; the last line may
\* lack its newline.
FilesOver(pool, n) ==
    LET texts == UNION {[1..k -> pool] : k \in 0..n}
    IN UNION {
         {[i \in 1..Len(t) |-> [txt |-> t[i], nl |-> (i < Len(t)) \/ e]] : e \in BOOLEAN}
         : t \in texts}

SelectDefPool == {HdrCharacters, HdrExtra, KFM, Sentinel, Ryu2}

----------------------------------------------------------------------------
(* SpecAdd: add_char_to_select_def called repeatedly on one select.def *)

InitAdd ==
    /\ selectDef \in FilesOver(SelectDefPool, MaxLines)
    /\ config = NoConfig
    /\ engine = "MUGEN"
    /\ fsNoCase = FALSE
    /\ chars = {}
    /\ downloads = {}
    /\ backups = {}
    /\ pc = "call"
    /\ archives = <<>>
    /\ idx = 0
    /\ roster = <<>>
    /\ cleanup = TRUE
    /\ last = NoLast
    /\ done = {}
    /\ added = {}
    /\ ops = 0

AddCharToSelectDef ==
    /\ pc = "call"
    /\ ops < MaxAdds
    /\ \E char_name \in Names : \E o \in AddOutcomes(selectDef, char_name) :
           CallAdd(char_name, o)
    /\ ops' = ops + 1
    /\ UNCHANGED <<config, engine, fsNoCase, chars, downloads, backups, pc,
                   archives, idx, roster, cleanup, done>>

NextAdd == AddCharToSelectDef

SpecAdd == InitAdd /\ [][NextAdd]_vars

----------------------------------------------------------------------------
(* mugen_manager_v2.py: roster reading and writing *)

\* ord(c), for the comparisons sorted() makes
Ord == [c \in Alphabet |-> CHOOSE i \in 1..Len(CodeOrder) : CodeOrder[i] = c]

\* a < b for Python strings
RECURSIVE StrLess(_, _)
StrLess(a, b) ==
    IF b = <<>> THEN FALSE
    ELSE IF a = <<>> THEN TRUE
    ELSE IF Head(a) # Head(b) THEN Ord[Head(a)] < Ord[Head(b)]
    ELSE StrLess(Tail(a), Tail(b))

\* sorted(list(set(chars)))
RECURSIVE SortedList(_)
SortedList(S) ==
    IF S = {} THEN <<>>
    ELSE LET m == CHOOSE x \in S : \A y \in S \ {x} : StrLess(x, y)
         IN <<m>> \o SortedList(S \ {m})

CharsSlash == <<"c","h","a","r","s","/">>

\* entry.get("char", "").replace('\\', '/')
CharPath(entry) == SlashFix(IF "char" \in DOMAIN entry THEN entry.char ELSE <<>>)

\* lines 62-65 and line 90: the folder of a "chars/<folder>/<def>" path;
\* has = FALSE stands for None
FolderOf(entry) ==
    LET char_path == CharPath(entry)
        parts == Split(char_path, "/")
    IN IF StartsWith(char_path, CharsSlash) /\ Len(parts) > 1
       THEN [has |-> TRUE, name |-> parts[2]]
       ELSE [has |-> FALSE, name |-> <<>>]

\* lines 56-65: the folder names of the Characters records of config.json
IkemenNames(cfg) ==
    {FolderOf(cfg.Characters[i]).name :
        i \in {j \in 1..Len(cfg.Characters) : FolderOf(cfg.Characters[j]).has}}

\* lines 66-79: the names on the lines of the [Characters] section
RECURSIVE MugenNames(_, _, _)
MugenNames(file, i, in_chars_section) ==
    IF i > Len(file) THEN {}
    ELSE LET line == Strip(file[i].txt) IN
         IF line = <<>> \/ StartsWith(line, <<";">>)
         THEN MugenNames(file, i + 1, in_chars_section)
         ELSE IF Lower(line) = HdrLower
         THEN MugenNames(file, i + 1, TRUE)
         ELSE LET inside == in_chars_section /\ ~StartsWith(line, <<"[">>)
              IN (IF inside
                  THEN {Strip(FirstField(FirstField(line, ","), "\\"))}
                  ELSE {})
                 \cup MugenNames(file, i + 1, inside)

\* read_roster(roster_path, engine_type) on given file contents
RosterOf(engine_type, cfg, file) ==
    IF engine_type = "IKEMEN" THEN SortedList(IkemenNames(cfg))
    ELSE IF engine_type = "MUGEN" THEN SortedList(MugenNames(file, 1, FALSE))
    ELSE <<>>

\* read_roster on the roster file as it is now
ReadRoster == RosterOf(engine, config, selectDef)

\* x in list
InList(x, list) == \E i \in 1..Len(list) : list[i] = x

\* list.remove(x): the first occurrence goes
ListRemove(list, x) ==
    LET k == MinOf({i \in 1..Len(list) : list[i] = x})
    IN SubSeq(list, 1, k - 1) \o SubSeq(list, k + 1, Len(list))

\* lines 87-92: the records whose folder is in chars_to_keep, in order
RECURSIVE KeepKnown(_, _)
KeepKnown(entries, chars_to_keep) ==
    IF entries = <<>> THEN <<>>
    ELSE LET f == FolderOf(Head(entries))
             rest == KeepKnown(Tail(entries), chars_to_keep)
         IN IF f.has /\ InList(f.name, chars_to_keep)
            THEN <<Head(entries)>> \o rest
            ELSE rest

\* write_roster_ikemen(roster_path, chars_to_keep)
WriteRosterIkemen(cfg, chars_to_keep) ==
    [cfg EXCEPT !.hasChars = TRUE,
                !.Characters = KeepKnown(cfg.Characters, chars_to_keep)]

\* add_to_roster_ikemen(roster_path, char_folder_name, def_file_name)
AddToRosterIkemen(cfg, char_folder_name, def_file_name) ==
    [cfg EXCEPT !.hasChars = TRUE,
                !.Characters = Append(cfg.Characters,
                    [char |-> CharsSlash \o char_folder_name \o <<"/">> \o def_file_name])]

NoDefFile == <<>>

\* find_def_file: <folder>.def, else the first file ending in .def
FindDefFile(name, files) ==
    IF HasFile(files, name \o DotDef) THEN name \o DotDef
    ELSE LET defs == {i \in 1..Len(files) : EndsWith(Lower(files[i]), DotDef)}
         IN IF defs = {} THEN NoDefFile ELSE files[MinOf(defs)]

\* mugen_manager_v2.py find_character_folder
FindCharacterFolder(contents) ==
    IF contents = <<>> THEN NoFolder
    ELSE IF Len(contents) = 1 /\ contents[1].dir THEN contents[1]
    ELSE LET good == {i \in 1..Len(contents) :
                         /\ contents[i].dir
                         /\ FindDefFile(contents[i].name, contents[i].files) # NoDefFile}
         IN IF good # {} THEN contents[MinOf(good)]
            ELSE IF contents[1].dir THEN contents[1]
            ELSE NoFolder


----------------------------------------------------------------------------
(* mugen-installer.py main(): one run over the archives of the downloads   *)
(* folder.  The scratch folder _temp_extract is emptied around every       *)
(* archive and holds nothing between steps, so it is not a variable.       *)

SelectDefStarts ==
    {<<Line(HdrCharacters), Line(KFM), Line(Sentinel), Line(HdrExtra)>>,
     <<Line(HdrCharacters), Line(Ryu), Line(Sentinel), Line(HdrExtra)>>,
     <<Line(HdrCharacters), Line(Ryu2)>>,
     <<Line(HdrExtra)>>}

FolderRyu == [name |-> Ryu, files |-> <<Ryu \o DotDef>>]
FolderKFM == [name |-> KFM, files |-> <<KFM \o DotDef>>]

DownloadSets == {d \in SUBSET ArchivePool : Cardinality(d) <= MaxBatch}

InitInst ==
    /\ selectDef \in SelectDefStarts
    /\ config = NoConfig
    /\ engine = "MUGEN"
    /\ fsNoCase \in BOOLEAN
    /\ chars \in {{}, {FolderRyu}}
    /\ downloads \in DownloadSets
    /\ backups = {}
    /\ pc = "inst"
    /\ archives = <<>>
    /\ idx = 0
    /\ roster = <<>>
    /\ cleanup \in BOOLEAN
    /\ last = NoLast
    /\ done = {}
    /\ added = {}
    /\ ops = 0

\* what one pass of a batch loop leaves on record
\* archive_to_install outside replace_character: no archive was chosen
NoArchive == Archive(<<>>, FALSE, <<>>)

\* archive_to_install (line 245) of the replace_character call the loop runs in
ArchiveToInstall ==
    IF last.op = "replace" THEN last.arc
    ELSE IF last.op = "pass" THEN last.sel
    ELSE NoArchive

Pass(how, arc) ==
    [op |-> "pass", how |-> how, arc |-> arc, at |-> idx, dl |-> downloads,
     folders |-> chars, before |-> selectDef, cfg |-> config,
     sel |-> ArchiveToInstall]

\* lines 150-156: list the archives
InstStart ==
    /\ pc = "inst"
    /\ \E q \in Listings(downloads) :
          /\ archives' = q
          /\ pc' = IF q = <<>> THEN "exit" ELSE "instloop"
    /\ idx' = 1
    /\ last' = [op |-> "start"]
    /\ UNCHANGED <<ops, selectDef, config, engine, fsNoCase, chars, downloads,
                   backups, roster, cleanup, done, added>>

\* as InstExtractFail, but the failure ends the run (a return for the continue)
InstExtractFailAborts ==
    /\ pc = "instloop" /\ idx <= Len(archives)
    /\ ~archives[idx].ok
    /\ pc' = "exit"
    /\ done' = done \cup {archives[idx]}
    /\ last' = Pass("extractfail", archives[idx])
    /\ UNCHANGED <<ops, selectDef, config, engine, fsNoCase, chars, downloads,
                   backups, idx, archives, roster, cleanup, added>>

\* lines 167-168: extraction fails, the loop goes on to the next archive
InstExtractFail ==
    /\ pc = "instloop" /\ idx <= Len(archives)
    /\ ~archives[idx].ok
    /\ idx' = idx + 1
    /\ done' = done \cup {archives[idx]}
    /\ last' = Pass("extractfail", archives[idx])
    /\ UNCHANGED <<ops, selectDef, config, engine, fsNoCase, chars, downloads,
                   backups, pc, archives, roster, cleanup, added>>

\* lines 171-175: no folder with its own .def file
InstNoFolder ==
    /\ pc = "instloop" /\ idx <= Len(archives)
    /\ archives[idx].ok
    /\ FindCharacterFolderInst(archives[idx].contents) = NoFolder
    /\ idx' = idx + 1
    /\ done' = done \cup {archives[idx]}
    /\ last' = Pass("nofolder", archives[idx])
    /\ UNCHANGED <<ops, selectDef, config, engine, fsNoCase, chars, downloads,
                   backups, pc, archives, roster, cleanup, added>>

\* lines 180-184: chars/<folder> exists already
InstExists ==
    /\ pc = "instloop" /\ idx <= Len(archives)
    /\ archives[idx].ok
    /\ LET item == FindCharacterFolderInst(archives[idx].contents)
       IN item # NoFolder /\ Exists(item.name)
    /\ idx' = idx + 1
    /\ done' = done \cup {archives[idx]}
    /\ last' = Pass("exists", archives[idx])
    /\ UNCHANGED <<ops, selectDef, config, engine, fsNoCase, chars, downloads,
                   backups, pc, archives, roster, cleanup, added>>

\* lines 186-199: move the folder, register it, delete the archive when the
\* registration returned True and cleanup is on
InstInstall ==
    /\ pc = "instloop" /\ idx <= Len(archives)
    /\ archives[idx].ok
    /\ LET item == FindCharacterFolderInst(archives[idx].contents) IN
       /\ item # NoFolder /\ ~Exists(item.name)
       /\ chars' = Moved(item)
       /\ \E o \in AddOutcomes(selectDef, item.name) :
             /\ selectDef' = o.file
             /\ downloads' = IF o.ret /\ cleanup THEN downloads \ {archives[idx]}
                             ELSE downloads
             /\ last' = [Pass("install", archives[idx]) EXCEPT !.how = o.how]
             /\ added' = IF o.how = "written" THEN added \cup {item.name}
                         ELSE IF o.file # selectDef THEN {} ELSE added
    /\ idx' = idx + 1
    /\ done' = done \cup {archives[idx]}
    /\ UNCHANGED <<ops, config, engine, fsNoCase, backups, pc, archives, roster, cleanup>>

\* lines 201-202: the loop is over
InstFinish ==
    /\ pc = "instloop" /\ idx > Len(archives)
    /\ pc' = "exit"
    /\ last' = [op |-> "finish"]
    /\ UNCHANGED <<ops, selectDef, config, engine, fsNoCase, chars, downloads, backups,
                   archives, idx, roster, cleanup, done, added>>

NextInst ==
    \/ InstStart \/ InstExtractFail \/ InstNoFolder \/ InstExists
    \/ InstInstall \/ InstFinish

SpecInst == InitInst /\ [][NextInst]_vars

----------------------------------------------------------------------------
(* mugen_manager_v2.py main(): the menu loop and its operations.  The       *)
(* scratch folder _temp_extract is emptied before every archive and is not  *)
(* a variable.                                                              *)

PathOf(name, def_file) == CharsSlash \o name \o <<"/">> \o def_file
BackPathOf(name, def_file) ==
    <<"c","h","a","r","s","\\">> \o name \o <<"\\">> \o def_file
StagePath == <<"s","t","a","g","e","s","/","x">> \o DotDef

ConfigStarts ==
    {[hasChars |-> FALSE, Characters |-> <<>>, other |-> {"Motif"}],
     [hasChars |-> TRUE, other |-> {"Motif"},
      Characters |-> <<[char |-> PathOf(KFM, KFM \o DotDef)],
                       [char |-> PathOf(Ryu, Ryu \o DotDef)]>>],
     [hasChars |-> TRUE, other |-> {"Motif"},
      Characters |-> <<[char |-> PathOf(Ryu, Ryu \o DotDef)],
                       [char |-> StagePath],
                       [char |-> BackPathOf(Ryu, <<"b">> \o DotDef)],
                       [slot |-> <<"x">>],
                       [char |-> PathOf(KFM, KFM \o DotDef)]>>]}

MugenStarts ==
    {<<Line(HdrCharacters), Line(KFM), Line(Ryu), Line(Sentinel), Line(HdrExtra)>>,
     <<Line(<<";"," ","c">>), Line(HdrCharacters),
       Line(KFM \o <<","," ">> \o StagePath), Line(<<>>),
       [txt |-> <<",">> \o StagePath, nl |-> FALSE]>>,
     <<Line(HdrExtra), Line(StagePath)>>}

InitMgr ==
    /\ engine \in {"IKEMEN", "MUGEN"}
    /\ IF engine = "IKEMEN"
       THEN config \in ConfigStarts /\ selectDef = <<>>
       ELSE config = NoConfig /\ selectDef \in MugenStarts
    /\ fsNoCase \in BOOLEAN
    /\ chars \in {{}, {FolderRyu, FolderKFM}}
    /\ downloads \in DownloadSets
    /\ backups = {}
    /\ pc = "menu"
    /\ archives = <<>>
    /\ idx = 0
    /\ roster = <<>>
    /\ cleanup \in BOOLEAN
    /\ last = NoLast
    /\ done = {}
    /\ added = {}
    /\ ops = 0

\* what a menu operation leaves on record
Op(what, name) ==
    [op |-> what, name |-> name, dl |-> downloads, folders |-> chars,
     before |-> selectDef, cfg |-> config]

\* lines 335-338: option 1, or any other input: the roster is read again
MgrList ==
    /\ pc = "menu" /\ ops < MaxOps
    /\ roster' = ReadRoster
    /\ ops' = ops + 1
    /\ last' = Op("list", <<>>)
    /\ UNCHANGED <<selectDef, config, engine, fsNoCase, chars, downloads, backups,
                   pc, archives, idx, cleanup, done, added>>

\* lines 339-340, 160-165: option 2 lists the archives and starts the loop
MgrAdd ==
    /\ pc = "menu" /\ ops < MaxOps
    /\ roster' = ReadRoster
    /\ \E q \in Listings(downloads) :
          /\ archives' = q
          /\ pc' = IF q = <<>> THEN "menu" ELSE "mgrloop"
    /\ idx' = 1
    /\ done' = {}
    /\ ops' = ops + 1
    /\ last' = Op("add_characters", <<>>)
    /\ UNCHANGED <<selectDef, config, engine, fsNoCase, chars, downloads, backups,
                   cleanup, added>>

\* line 175: extraction fails, the loop goes on to the next archive
MgrExtractFail ==
    /\ pc = "mgrloop" /\ idx <= Len(archives)
    /\ ~archives[idx].ok
    /\ idx' = idx + 1
    /\ done' = done \cup {archives[idx]}
    /\ last' = Pass("extractfail", archives[idx])
    /\ UNCHANGED <<selectDef, config, engine, fsNoCase, chars, downloads, backups,
                   pc, archives, roster, cleanup, added, ops>>

\* lines 178-181: no character folder in the archive
MgrNoFolder ==
    /\ pc = "mgrloop" /\ idx <= Len(archives)
    /\ archives[idx].ok
    /\ FindCharacterFolder(archives[idx].contents) = NoFolder
    /\ idx' = idx + 1
    /\ done' = done \cup {archives[idx]}
    /\ last' = Pass("nofolder", archives[idx])
    /\ UNCHANGED <<selectDef, config, engine, fsNoCase, chars, downloads, backups,
                   pc, archives, roster, cleanup, added, ops>>

\* lines 184-186: the folder name is in the roster list
MgrAlready ==
    /\ pc = "mgrloop" /\ idx <= Len(archives)
    /\ archives[idx].ok
    /\ LET item == FindCharacterFolder(archives[idx].contents)
       IN item # NoFolder /\ InList(item.name, roster)
    /\ idx' = idx + 1
    /\ done' = done \cup {archives[idx]}
    /\ last' = Pass("present", archives[idx])
    /\ UNCHANGED <<selectDef, config, engine, fsNoCase, chars, downloads, backups,
                   pc, archives, roster, cleanup, added, ops>>

\* line 191: shutil.move raises when chars/<folder> exists; nothing catches it
MgrMoveCrash ==
    /\ pc = "mgrloop" /\ idx <= Len(archives)
    /\ archives[idx].ok
    /\ LET item == FindCharacterFolder(archives[idx].contents)
       IN item # NoFolder /\ ~InList(item.name, roster) /\ Exists(item.name)
    /\ pc' = "crashed"
    /\ done' = done \cup {archives[idx]}
    /\ last' = Pass("crash", archives[idx])
    /\ UNCHANGED <<selectDef, config, engine, fsNoCase, chars, downloads, backups,
                   archives, idx, roster, cleanup, added, ops>>

\* lines 188-197: the folder is moved but holds no .def file
MgrNoDef ==
    /\ pc = "mgrloop" /\ idx <= Len(archives)
    /\ archives[idx].ok
    /\ LET item == FindCharacterFolder(archives[idx].contents) IN
       /\ item # NoFolder /\ ~InList(item.name, roster) /\ ~Exists(item.name)
       /\ FindDefFile(item.name, item.files) = NoDefFile
       /\ chars' = Moved(item)
    /\ idx' = idx + 1
    /\ done' = done \cup {archives[idx]}
    /\ last' = Pass("nodef", archives[idx])
    /\ UNCHANGED <<selectDef, config, engine, fsNoCase, downloads, backups,
                   pc, archives, roster, cleanup, added, ops>>

\* lines 188-207: move the folder, add it to the IKEMEN roster, delete the
\* archive when cleanup is on
MgrInstall ==
    /\ pc = "mgrloop" /\ idx <= Len(archives)
    /\ archives[idx].ok
    /\ LET item == FindCharacterFolder(archives[idx].contents)
           def_file == FindDefFile(item.name, item.files)
       IN /\ item # NoFolder /\ ~InList(item.name, roster) /\ ~Exists(item.name)
          /\ def_file # NoDefFile
          /\ chars' = Moved(item)
          /\ config' = IF engine = "IKEMEN"
                       THEN AddToRosterIkemen(config, item.name, def_file)
                       ELSE config
          /\ added' = IF engine = "IKEMEN" THEN added \cup {item.name} ELSE added
    /\ downloads' = IF cleanup THEN downloads \ {archives[idx]} ELSE downloads
    /\ idx' = idx + 1
    /\ done' = done \cup {archives[idx]}
    /\ last' = Pass("install", archives[idx])
    /\ UNCHANGED <<selectDef, engine, fsNoCase, backups, pc, archives, roster,
                   cleanup, ops>>

\* the for loop of add_characters is over: back to the menu
MgrAddFinish ==
    /\ pc = "mgrloop" /\ idx > Len(archives)
    /\ pc' = "menu"
    /\ last' = [op |-> "finish"]
    /\ UNCHANGED <<selectDef, config, engine, fsNoCase, chars, downloads, backups,
                   archives, idx, roster, cleanup, done, added, ops>>

\* lines 126-142 and 215-244: delete or replace given up (empty roster,
\* choice 0 or out of range, no archive, or no confirmation)
MgrCancel ==
    /\ pc = "menu" /\ ops < MaxOps
    /\ roster' = ReadRoster
    /\ ops' = ops + 1
    /\ last' = Op("cancel", <<>>)
    /\ UNCHANGED <<selectDef, config, engine, fsNoCase, chars, downloads, backups,
                   pc, archives, idx, cleanup, done, added>>

\* lines 137-157: a confirmed delete of roster[choice - 1]
MgrDelete ==
    /\ pc = "menu" /\ ops < MaxOps
    /\ LET current_roster == ReadRoster IN
       \E choice \in 1..Len(current_roster) :
          LET char_to_delete == current_roster[choice]
              kept == ListRemove(current_roster, char_to_delete)
          IN /\ roster' = kept
             /\ config' = IF engine = "IKEMEN" THEN WriteRosterIkemen(config, kept)
                          ELSE config
             /\ chars' = IF Exists(char_to_delete) THEN Removed(char_to_delete)
                         ELSE chars
             /\ last' = Op("delete", char_to_delete)
             /\ added' = added \ {char_to_delete}
    /\ ops' = ops + 1
    /\ UNCHANGED <<selectDef, engine, fsNoCase, downloads, backups, pc, archives,
                   idx, cleanup, done>>

\* lines 226-259: replace roster[choice - 1]: delete it, then run
\* add_characters over the downloads folder
MgrReplace ==
    /\ pc = "menu" /\ ops < MaxOps
    /\ LET current_roster == ReadRoster IN
       \E choice \in 1..Len(current_roster) :
          LET char_to_replace == current_roster[choice]
              kept == ListRemove(current_roster, char_to_replace)
          IN /\ roster' = kept
             /\ config' = IF engine = "IKEMEN" THEN WriteRosterIkemen(config, kept)
                          ELSE config
             /\ chars' = IF Exists(char_to_replace) THEN Removed(char_to_replace)
                         ELSE chars
             /\ added' = added \ {char_to_replace}
             /\ \E q \in Listings(downloads) : \E archive_choice \in 1..Len(q) :
                   /\ archives' = q
                   /\ last' = [op |-> "replace", name |-> char_to_replace,
                               arc |-> q[archive_choice], dl |-> downloads,
                               folders |-> chars, before |-> selectDef,
                               cfg |-> config]
    /\ idx' = 1
    /\ done' = {}
    /\ pc' = "mgrloop"
    /\ ops' = ops + 1
    /\ UNCHANGED <<selectDef, engine, fsNoCase, downloads, backups, cleanup>>

\* lines 345-347: option 5
MgrExit ==
    /\ pc = "menu"
    /\ pc' = "exit"
    /\ roster' = ReadRoster
    /\ last' = [op |-> "exit"]
    /\ UNCHANGED <<selectDef, config, engine, fsNoCase, chars, downloads, backups,
                   archives, idx, cleanup, done, added, ops>>

NextMgr ==
    \/ MgrList \/ MgrAdd \/ MgrExtractFail \/ MgrNoFolder \/ MgrAlready
    \/ MgrMoveCrash \/ MgrNoDef \/ MgrInstall \/ MgrAddFinish
    \/ MgrCancel \/ MgrDelete \/ MgrReplace \/ MgrExit

SpecMgr == InitMgr /\ [][NextMgr]_vars

----------------------------------------------------------------------------
(* Both programs *)

\* the batch installation of both programs, without delete and replace
NextBatch ==
    \/ NextInst
    \/ MgrAdd \/ MgrExtractFail \/ MgrNoFolder \/ MgrAlready
    \/ MgrMoveCrash \/ MgrNoDef \/ MgrInstall \/ MgrAddFinish

SpecBatch == (InitInst \/ InitMgr) /\ [][NextBatch]_vars

Init == InitInst \/ InitMgr

Next == NextInst \/ NextMgr

Spec == Init /\ [][Next]_vars

----------------------------------------------------------------------------
(* Properties of add_char_to_select_def *)

\* The lines of the [Characters] body, by the section rule of lines 113-121:
\* the section opens at a [characters] header and closes at the next header.
RECURSIVE BodyFrom(_, _, _)
BodyFrom(file, i, inside) ==
    IF i > Len(file) THEN {}
    ELSE LET t == Strip(file[i].txt) IN
         IF Lower(t) = HdrLower THEN BodyFrom(file, i + 1, TRUE)
         ELSE IF StartsWith(t, <<"[">>) THEN BodyFrom(file, i + 1, FALSE)
         ELSE (IF inside THEN {i} ELSE {}) \cup BodyFrom(file, i + 1, inside)

CharsBody(file) == BodyFrom(file, 1, FALSE)

HasCharsHeader(file) == \E i \in 1..Len(file) : Lower(Strip(file[i].txt)) = HdrLower

\* normalize(entry) of the entry model: the token before the first comma,
\* trimmed and lowercased
Key(t) == Lower(Strip(FirstField(Strip(t), ",")))

IsSentinelLine(l) == Key(l.txt) = Sentinel
IsEntryLine(l) ==
    /\ Strip(l.txt) # <<>>
    /\ ~StartsWith(Strip(l.txt), <<";">>)
    /\ ~IsSentinelLine(l)

\* exactly one randomselect line in the body, after every character entry
SentinelLast(file) ==
    LET body == CharsBody(file)
        sent == {i \in body : IsSentinelLine(file[i])}
    IN /\ Cardinality(sent) = 1
       /\ \A i \in body : IsEntryLine(file[i]) => \A j \in sent : i < j

\* after = before with the one line "name\n" put in
OneLineInserted(before, after, name) ==
    \E k \in 0..Len(before) :
        after = SubSeq(before, 1, k) \o <<Line(name)>> \o SubSeq(before, k + 1, Len(before))

\* C1 (add_char_to_select_def): once an add has written a name to the
\* roster, every later add of that name reports it present and leaves the
\* file as it was.
C1_AddIdempotent ==
    (last.op = "add" /\ last.name \in last.was)
        => (last.how = "present" /\ selectDef = last.before)

\* every line of the file ends with a newline
Terminated(file) == \A i \in 1..Len(file) : file[i].nl

\* C3: a successful add to a roster whose [Characters] body has exactly one
\* randomselect line placed after its entries leaves exactly one
\* randomselect line, still after every character entry (stated for files
\* whose last line ends with a newline, as in the example of the claim).
C3_SentinelStaysLast ==
    (/\ last.op = "add" /\ last.how = "written"
     /\ Terminated(last.before)
     /\ SentinelLast(last.before))
        => SentinelLast(selectDef)

\* C4: with no [Characters] header in the file, add_char_to_select_def
\* reports failure and the file keeps its content.
C4_NoHeaderFailsUnchanged ==
    (last.op = "add" /\ ~HasCharsHeader(last.before))
        => (last.ret = FALSE /\ selectDef = last.before)

\* C5: a successful add changes the file by exactly the one inserted entry
\* line; every original line is kept unchanged and in order.
C5_OnlyOneLineInserted ==
    (last.op = "add" /\ last.how = "written")
        => OneLineInserted(last.before, selectDef, last.name)

----------------------------------------------------------------------------
(* Properties of the batch loops and of the manager *)

\* the elements of a sequence
Range(q) == {q[i] : i \in 1..Len(q)}

\* the roster as read_roster would have listed it before the latest step
RosterBefore == RosterOf(engine, last.cfg, last.before)

\* the latest step changed the roster file
RosterChanged == selectDef # last.before \/ config # last.cfg

\* C2: in add_characters an archive whose folder name differs only by
\* letter case from a roster entry is reported as already present and the
\* roster gets no second entry.
C2_CaseInsensitiveDedup ==
    (/\ last.op = "pass"
     /\ last.arc.ok
     /\ FindCharacterFolder(last.arc.contents) # NoFolder
     /\ FindCharacterFolder(last.arc.contents).name \notin Range(RosterBefore)
     /\ \E r \in Range(RosterBefore) :
           Lower(r) = Lower(FindCharacterFolder(last.arc.contents).name))
        => (last.how = "present" /\ ~RosterChanged)

\* C6: whenever an add, delete or replace step has written the roster file,
\* a backup holding the content it had before the write exists.
C6_BackupBeforeWrite ==
    (last.op \in {"pass", "delete", "replace"} /\ RosterChanged)
        => (last.before \in backups \/ last.cfg \in backups)

\* C7: after a confirmed delete that removed the character's folder, the
\* roster file lists no entry whose normalized key is that character's.
C7_DeleteRemovesEntry ==
    (last.op = "delete" /\ chars # last.folders)
        => \A r \in Range(ReadRoster) : Lower(r) # Lower(last.name)

\* C8: a pass whose extraction failed moved nothing, registered nothing and
\* deleted nothing, and the loop went on to the next archive; a batch that
\* ran to its end has taken up every archive of its list.
C8_ExtractFailureIsolated ==
    /\ (last.op = "pass" /\ last.how = "extractfail")
          => /\ ~RosterChanged
             /\ chars = last.folders
             /\ downloads = last.dl
             /\ pc \in {"instloop", "mgrloop"}
             /\ idx = last.at + 1
    /\ (last.op = "finish") => done = Range(archives)

\* a batch ran to its end whose first archive failed to extract and whose
\* second archive was installed and cleaned up
C8_Witness ==
    /\ last.op = "finish"
    /\ Len(archives) = 2
    /\ ~archives[1].ok
    /\ archives[2] \notin downloads

\* C9: a pass that deleted its archive has moved the character folder into
\* chars and the roster file lists that character.
C9_CleanupOnlyAfterInstall ==
    (last.op = "pass" /\ last.arc \in last.dl /\ last.arc \notin downloads)
        => /\ chars # last.folders
           /\ \A f \in chars \ last.folders : InList(f.name, ReadRoster)

\* C10: the list read_roster returned holds no empty string and no entry
\* whose normalized form is randomselect.
C10_NoSentinelOrEmpty ==
    \A r \in Range(roster) : r # <<>> /\ Lower(r) # Sentinel

----------------------------------------------------------------------------
(* Properties of the duplicate test, of delete and of replace *)

\* normalize(entry): lowercased, backslashes turned to slashes, the first
\* path segment of the token before the first comma
NormKey(t) == FirstField(SlashFix(Key(t)), "/")

\* the normalized keys of the entries of the [Characters] section
SectionKeys(file) ==
    {NormKey(file[i].txt) : i \in {j \in CharsBody(file) : IsEntryLine(file[j])}}

\* C11: add_char_to_select_def reports a name as already present only when
\* its normalized key equals the key of an entry of the [Characters]
\* section; any other name is added to that section when it exists.
C11_ExactScopedDuplicates ==
    (last.op = "add")
        => /\ (last.how = "present")
                 => NormKey(last.name) \in SectionKeys(last.before)
           /\ (/\ NormKey(last.name) \notin SectionKeys(last.before)
               /\ HasCharsHeader(last.before))
                 => last.how \in {"written", "writeerror"}

\* the records of a Characters list that do not belong to folder name, in order
RECURSIVE WithoutFolder(_, _)
WithoutFolder(entries, name) ==
    IF entries = <<>> THEN <<>>
    ELSE LET f == FolderOf(Head(entries))
             rest == WithoutFolder(Tail(entries), name)
         IN IF f.has /\ f.name = name THEN rest ELSE <<Head(entries)>> \o rest

\* C12: after a delete on an IKEMEN roster every Characters record that does
\* not belong to the deleted character is still there, in the same order,
\* and so is every other key of config.json.
C12_DeleteKeepsOtherRecords ==
    (last.op = "delete" /\ engine = "IKEMEN")
        => /\ config.Characters = WithoutFolder(last.cfg.Characters, last.name)
           /\ config.other = last.cfg.other

\* C13: inside replace_character a pass of the installation loop over an
\* archive other than the one chosen at the prompt changes nothing: the
\* archive stays in the downloads folder and no folder, roster record or
\* file line is added.
C13_ReplaceInstallsOnlyChosen ==
    (/\ last.op = "pass"
     /\ last.sel # NoArchive
     /\ last.arc # last.sel)
        => /\ downloads = last.dl
           /\ chars = last.folders
           /\ config = last.cfg
           /\ selectDef = last.before

====
